---- MODULE Spec2Model ----
(***************************************************************************)
(* Model of wanderling-service (src/src/lib.rs): the Dataset built once    *)
(* from input.json, its point lookup and filter+paginate operations, the   *)
(* two request handlers and the startup sequence of run().                 *)
(*                                                                         *)
(* Strings are sequences of one-character strings so that to_lowercase     *)
(* and starts_with are computed, not assumed.  Option<T> is a sequence of  *)
(* length 0 (None) or 1 (Some).  u32 products are computed on base-256     *)
(* digits, because the wrapped product of two u32 is what the code skips.  *)
(***************************************************************************)
EXTENDS Integers, Sequences, FiniteSets, TLC

VARIABLES pc, source, db, listener, result, slots, walk

vars == <<pc, source, db, listener, result, slots, walk>>

----------------------------------------------------------------------------
(* Bounds of the model *)

\* longest record sequence read from the source file
MaxLen == 3
\* number of requests in flight at once in SpecConc
NumWorkers == 2
\* longest record sequence in SpecConc
ConcMaxLen == 2
\* largest page size a paging client uses in SpecPages
MaxPageSize == 3

----------------------------------------------------------------------------
(* Option<T> *)

None == <<>>
Some(x) == <<x>>
IsSome(o) == o # None
Unwrap(o) == o[1]
UnwrapOr(o, d) == IF o = None THEN d ELSE o[1]

----------------------------------------------------------------------------
(* Country records; only the fields some operation reads are kept (id,     *)
(* country, country_code) plus capital, a display field.                   *)

Angola == [id |-> 1, country |-> <<"A", "n", "g">>, capital |-> "Luanda",
           country_code |-> <<"A", "O">>]
Andorra == [id |-> 2, country |-> <<"a", "n", "d">>, capital |-> "Andorra la Vella",
            country_code |-> <<"a", "d">>]
Benin == [id |-> 1, country |-> <<"B", "e">>, capital |-> "Porto-Novo",
          country_code |-> <<"B", "J">>]
Aoland == [id |-> 3, country |-> <<"A">>, capital |-> "Ao",
           country_code |-> <<"A", "o">>]

CountryPool == {Angola, Andorra, Benin, Aoland}

Ids == 1..4

RECURSIVE SeqsUpTo(_, _)
SeqsUpTo(S, n) ==
    IF n = 0 THEN {<<>>}
    ELSE LET shorter == SeqsUpTo(S, n - 1)
         IN  shorter \cup {Append(s, x) : s \in {t \in shorter : Len(t) = n - 1}, x \in S}

RecordSeqs == SeqsUpTo(CountryPool, MaxLen)

----------------------------------------------------------------------------
(* str::to_lowercase, str::eq, str::starts_with on the letters in use *)

ToLowerChar(c) ==
    CASE c = "A" -> "a"
      [] c = "B" -> "b"
      [] c = "D" -> "d"
      [] c = "E" -> "e"
      [] c = "G" -> "g"
      [] c = "J" -> "j"
      [] c = "N" -> "n"
      [] c = "O" -> "o"
      [] OTHER -> c

to_lowercase(s) == [i \in 1..Len(s) |-> ToLowerChar(s[i])]

RECURSIVE starts_with(_, _)
starts_with(s, prefix) ==
    IF prefix = <<>> THEN TRUE
    ELSE IF s = <<>> THEN FALSE
    ELSE Head(s) = Head(prefix) /\ starts_with(Tail(s), Tail(prefix))

----------------------------------------------------------------------------
(* u32 arithmetic: page * limit                                            *)

Base == 256

ToDigits(n) == [i \in 1..4 |-> (n \div (Base ^ (i - 1))) % Base]

\* the sum of the digit products that land in column k (1-based)
Column(a, b, k) ==
    LET pairs == {i \in 1..4 : k + 1 - i \in 1..4}
        RECURSIVE Sum(_)
        Sum(S) == IF S = {} THEN 0
                  ELSE LET i == CHOOSE x \in S : TRUE
                       IN  a[i] * b[k + 1 - i] + Sum(S \ {i})
    IN  Sum(pairs)

RECURSIVE Carry(_, _, _, _)
Carry(a, b, k, c) ==
    IF k > 8 THEN <<>>
    ELSE LET t == Column(a, b, k) + c
         IN  <<t % Base>> \o Carry(a, b, k + 1, t \div Base)

\* the eight base-256 digits of the mathematical product of two u32
FullMul(x, y) == Carry(ToDigits(x), ToDigits(y), 1, 0)

MulOverflows(x, y) == \E k \in 5..8 : FullMul(x, y)[k] # 0

\* `as usize` of a u32 given by its four digits; a value of 2^31 or more is
\* reported as 2^31 - 1, which skips every sequence the model can hold
AsUsize(d) ==
    IF d[4] >= 128 THEN 2147483647
    ELSE d[1] + Base * d[2] + Base * Base * d[3] + Base * Base * Base * d[4]

wrapping_mul(x, y) == AsUsize(SubSeq(FullMul(x, y), 1, 4))

----------------------------------------------------------------------------
(* Predicate *)

CountryCode(code) == [variant |-> "CountryCode", arg |-> code]
Name(name) == [variant |-> "Name", arg |-> name]
Tag(tag) == [variant |-> "Tag", arg |-> tag]

----------------------------------------------------------------------------
(* Dataset *)

\* a faulty insert: the map is started afresh at every record
InsertIntoFresh(map, k, v) == [x \in {k} |-> v]

\* a faulty insert: an existing key keeps its value (entry().or_insert)
InsertKeepFirst(map, k, v) ==
    [x \in (DOMAIN map) \cup {k} |-> IF x \in DOMAIN map THEN map[x] ELSE v]

\* HashMap::insert: the value of an existing key is replaced
Insert(map, k, v) == [x \in (DOMAIN map) \cup {k} |-> IF x = k THEN v ELSE map[x]]

RECURSIVE InsertAll(_, _)
InsertAll(map, value) ==
    IF value = <<>> THEN map
    ELSE InsertAll(Insert(map, Head(value).id, Head(value)), Tail(value))

\* impl From<Vec<Country>> for Dataset
From(value) == [by_id |-> InsertAll(<<>>, value), all_items |-> value]

get_by_id(self, id) ==
    IF id \in DOMAIN self.by_id THEN Some(self.by_id[id]) ELSE None

\* the closure given to Iterator::filter
Matches(p, x) ==
    CASE p.variant = "CountryCode" -> to_lowercase(x.country_code) = to_lowercase(p.arg)
      [] p.variant = "Name" -> starts_with(to_lowercase(x.country), to_lowercase(p.arg))
      [] p.variant = "Tag" -> starts_with(to_lowercase(x.country), to_lowercase(p.arg))

RECURSIVE IterFilter(_, _)
IterFilter(s, p) ==
    IF s = <<>> THEN <<>>
    ELSE IF Matches(p, Head(s)) THEN <<Head(s)>> \o IterFilter(Tail(s), p)
    ELSE IterFilter(Tail(s), p)

IterSkip(s, n) == IF n >= Len(s) THEN <<>> ELSE SubSeq(s, n + 1, Len(s))

\* a faulty take: one element too many
IterTakeInclusive(s, n) == IF n + 1 >= Len(s) THEN s ELSE SubSeq(s, 1, n + 1)

IterTake(s, n) == IF n >= Len(s) THEN s ELSE SubSeq(s, 1, n)

Panic == [kind |-> "panic", msg |-> "attempt to multiply with overflow"]

\* a faulty get_items_with_predicate: skip and take come before filter
get_items_paginate_then_filter(self, predicate, page, limit, overflow_checks) ==
    IF overflow_checks /\ MulOverflows(page, limit) THEN Panic
    ELSE LET paged == IterTake(IterSkip(self.all_items, wrapping_mul(page, limit)), limit)
             data == IF IsSome(predicate) THEN IterFilter(paged, Unwrap(predicate))
                     ELSE paged
         IN  [kind |-> "value",
              data |-> data,
              pagination |-> [page |-> page,
                              items_per_page |-> limit,
                              total_items |-> Len(self.all_items)]]

\* Dataset::get_items_with_predicate.  page * limit is a u32 product: a
\* build with overflow checks panics when it overflows, a build without
\* them wraps it.
get_items_with_predicate(self, predicate, page, limit, overflow_checks) ==
    IF overflow_checks /\ MulOverflows(page, limit) THEN Panic
    ELSE LET candidates == IF IsSome(predicate)
                           THEN IterFilter(self.all_items, Unwrap(predicate))
                           ELSE self.all_items
             data == IterTake(IterSkip(candidates, wrapping_mul(page, limit)), limit)
         IN  [kind |-> "value",
              data |-> data,
              pagination |-> [page |-> page,
                              items_per_page |-> limit,
                              total_items |-> Len(self.all_items)]]

----------------------------------------------------------------------------
(* Request handlers *)

DefaultItemsPerPage == 10
DefaultPage == 0

\* a faulty resolution: the name is looked at before the country code
ResolvePredicateNameFirst(query) ==
    IF IsSome(query.filter_name) THEN Some(Name(Unwrap(query.filter_name)))
    ELSE IF IsSome(query.filter_country_code)
    THEN Some(CountryCode(Unwrap(query.filter_country_code)))
    ELSE IF IsSome(query.filter_tag) THEN Some(Tag(Unwrap(query.filter_tag)))
    ELSE None

\* the predicate api_handler_countries_list resolves from the query
ResolvePredicate(query) ==
    IF IsSome(query.filter_country_code)
    THEN Some(CountryCode(Unwrap(query.filter_country_code)))
    ELSE IF IsSome(query.filter_name) THEN Some(Name(Unwrap(query.filter_name)))
    ELSE IF IsSome(query.filter_tag) THEN Some(Tag(Unwrap(query.filter_tag)))
    ELSE None

\* the arguments api_handler_countries_list passes to get_items_with_predicate
ListCall(query) ==
    [predicate |-> ResolvePredicate(query),
     page |-> UnwrapOr(query.page, DefaultPage),
     max |-> UnwrapOr(query.items_per_page, DefaultItemsPerPage)]

api_handler_countries_list(app_state, query, overflow_checks) ==
    LET call == ListCall(query)
        data == get_items_with_predicate(app_state.db, call.predicate,
                                         call.page, call.max, overflow_checks)
    IN  IF data.kind = "panic" THEN data
        ELSE [kind |-> "response", status |-> 200, body |-> data]

NotFoundBody == [msg |-> "Country not found"]

api_handler_countries_get(app_state, id) ==
    LET found == get_by_id(app_state.db, id)
    IN  IF IsSome(found)
        THEN [kind |-> "response", status |-> 200, body |-> Unwrap(found)]
        ELSE [kind |-> "response", status |-> 404, body |-> NotFoundBody]

----------------------------------------------------------------------------
(* Inputs *)

\* input.json as run() finds it
Sources ==
    {[kind |-> k, records |-> <<>>] : k \in {"missing", "unreadable", "malformed"}}
        \cup {[kind |-> "ok", records |-> rs] : rs \in RecordSeqs}

QueryCodes == {<<"a", "o">>}
QueryNames == {<<"A", "N">>}
PageValues == {0, 1, 65536}
LimitValues == {0, 1, 2, 65536}

OptionOf(S) == {None} \cup {Some(x) : x \in S}

QueryParams(codes, names, tags, pages, limits) ==
    [filter_tag : OptionOf(tags),
     filter_name : OptionOf(names),
     filter_country_code : OptionOf(codes),
     page : OptionOf(pages),
     items_per_page : OptionOf(limits)]

ListRequest(q) == [route |-> "/api/countries", id |-> None, query |-> Some(q)]
GetRequest(id) == [route |-> "/api/countries/{id}", id |-> Some(id), query |-> None]

Requests ==
    {ListRequest(q) : q \in QueryParams(QueryCodes, QueryNames, QueryNames,
                                        PageValues, LimitValues)}
        \cup {GetRequest(id) : id \in Ids}

\* the requests of the concurrent specification: fewer, so that several fit
ConcRequests ==
    {ListRequest(q) : q \in QueryParams(QueryCodes, {}, {}, {}, {})}
        \cup {GetRequest(1)}

\* a request task: the extracted arguments, the handler's call into the
\* Dataset (call) and the response
IdleSlot == [stage |-> "idle", req |-> None, state |-> None,
             call |-> None, resp |-> None]

IdleWalk == [stage |-> "idle", size |-> 0, page |-> 0, acc |-> <<>>, total |-> 0]

----------------------------------------------------------------------------
(* Startup: run() and load_dataset() *)

InitWith(sources) ==
    /\ pc = "start"
    /\ source \in sources
    /\ db = None
    /\ listener = "unbound"
    /\ result = "pending"
    /\ slots = [i \in 1..NumWorkers |-> IdleSlot]
    /\ walk = IdleWalk

Init == InitWith(Sources)

InitConc == InitWith({src \in Sources : Len(src.records) <= ConcMaxLen})

\* File::open("input.json").await?
OpenFile ==
    /\ pc = "start"
    /\ IF source.kind = "missing"
       THEN pc' = "exited" /\ result' = "Err(open)"
       ELSE pc' = "opened" /\ UNCHANGED result
    /\ UNCHANGED <<source, db, listener, slots, walk>>

\* file.read_to_string(&mut file_content).await?
ReadFile ==
    /\ pc = "opened"
    /\ IF source.kind = "unreadable"
       THEN pc' = "exited" /\ result' = "Err(read)"
       ELSE pc' = "read" /\ UNCHANGED result
    /\ UNCHANGED <<source, db, listener, slots, walk>>

\* serde_json::from_str::<Vec<Country>>(&file_content)?.into()
ParseAndBuild ==
    /\ pc = "read"
    /\ IF source.kind = "malformed"
       THEN pc' = "exited" /\ result' = "Err(parse)" /\ UNCHANGED db
       ELSE pc' = "loaded" /\ db' = Some(From(source.records)) /\ UNCHANGED result
    /\ UNCHANGED <<source, listener, slots, walk>>

\* a faulty run: the listener is bound and serving starts before the load
BindBeforeLoad ==
    /\ pc \in {"start", "loaded"}
    /\ \/ pc' = "serving" /\ listener' = "bound" /\ UNCHANGED result
       \/ pc' = "exited" /\ result' = "Err(bind)" /\ UNCHANGED listener
    /\ UNCHANGED <<source, db, slots, walk>>

\* TcpListener::bind("127.0.0.1:4123").await?, then axum::serve
Bind ==
    /\ pc = "loaded"
    /\ \/ pc' = "serving" /\ listener' = "bound" /\ UNCHANGED result
       \/ pc' = "exited" /\ result' = "Err(bind)" /\ UNCHANGED listener
    /\ UNCHANGED <<source, db, slots, walk>>

Startup == OpenFile \/ ReadFile \/ ParseAndBuild \/ Bind

----------------------------------------------------------------------------
(* Serving requests *)

\* the router takes a request: State(app_state) clones the AppState and
\* Path / Query extract the arguments
Accept(i, r) ==
    /\ pc = "serving"
    /\ listener = "bound"
    /\ slots[i].stage = "idle"
    /\ slots' = [slots EXCEPT ![i] = [stage |-> "extracted", req |-> Some(r),
                                      state |-> Some([db |-> Unwrap(db)]),
                                      call |-> None, resp |-> None]]
    /\ UNCHANGED <<pc, source, db, listener, result, walk>>

\* a faulty list handler: the shared sequence is filtered in place (retain)
HandleListRetain(i) ==
    /\ slots[i].stage = "extracted"
    /\ Unwrap(slots[i].req).route = "/api/countries"
    /\ \E overflow_checks \in BOOLEAN :
          LET app_state == Unwrap(slots[i].state)
              query == Unwrap(Unwrap(slots[i].req).query)
              call == ListCall(query)
          IN  /\ slots' = [slots EXCEPT
                             ![i].stage = "responded",
                             ![i].call = Some(call),
                             ![i].resp = Some(api_handler_countries_list(
                                                  app_state, query, overflow_checks))]
              /\ db' = IF IsSome(call.predicate)
                       THEN Some([Unwrap(db) EXCEPT
                                    !.all_items = IterFilter(@, Unwrap(call.predicate))])
                       ELSE db
    /\ UNCHANGED <<pc, source, listener, result, walk>>

HandleList(i) ==
    /\ slots[i].stage = "extracted"
    /\ Unwrap(slots[i].req).route = "/api/countries"
    /\ \E overflow_checks \in BOOLEAN :
          LET app_state == Unwrap(slots[i].state)
              query == Unwrap(Unwrap(slots[i].req).query)
          IN  slots' = [slots EXCEPT
                          ![i].stage = "responded",
                          ![i].call = Some(ListCall(query)),
                          ![i].resp = Some(api_handler_countries_list(
                                               app_state, query, overflow_checks))]
    /\ UNCHANGED <<pc, source, db, listener, result, walk>>

HandleGet(i) ==
    /\ slots[i].stage = "extracted"
    /\ Unwrap(slots[i].req).route = "/api/countries/{id}"
    /\ LET app_state == Unwrap(slots[i].state)
           id == Unwrap(Unwrap(slots[i].req).id)
       IN  slots' = [slots EXCEPT
                       ![i].stage = "responded",
                       ![i].call = Some([id |-> id]),
                       ![i].resp = Some(api_handler_countries_get(app_state, id))]
    /\ UNCHANGED <<pc, source, db, listener, result, walk>>

\* the response is written and the task ends
Respond(i) ==
    /\ slots[i].stage = "responded"
    /\ slots' = [slots EXCEPT ![i] = IdleSlot]
    /\ UNCHANGED <<pc, source, db, listener, result, walk>>

Serve(i, reqs) ==
    \/ \E r \in reqs : Accept(i, r)
    \/ HandleList(i)
    \/ HandleGet(i)
    \/ Respond(i)

----------------------------------------------------------------------------
(* A client that reads an unfiltered listing page by page *)

PageQuery(page, size) ==
    [filter_tag |-> None, filter_name |-> None, filter_country_code |-> None,
     page |-> Some(page), items_per_page |-> Some(size)]

WalkStart ==
    /\ pc = "serving"
    /\ walk.stage = "idle"
    /\ \E size \in 1..MaxPageSize :
          walk' = [stage |-> "paging", size |-> size, page |-> 0,
                   acc |-> <<>>, total |-> 0]
    /\ UNCHANGED <<pc, source, db, listener, result, slots>>

\* GET /api/countries?page=..&items_per_page=.. for the next page; the last
\* page asked for is page total_items / size
WalkFetch ==
    /\ pc = "serving"
    /\ walk.stage = "paging"
    /\ \E overflow_checks \in BOOLEAN :
          LET resp == api_handler_countries_list([db |-> Unwrap(db)],
                          PageQuery(walk.page, walk.size), overflow_checks)
          IN  IF resp.kind = "panic"
              THEN walk' = [walk EXCEPT !.stage = "failed"]
              ELSE LET total == resp.body.pagination.total_items
                   IN  walk' = [walk EXCEPT
                                  !.acc = walk.acc \o resp.body.data,
                                  !.total = total,
                                  !.page = walk.page + 1,
                                  !.stage = IF walk.page + 1 > total \div walk.size
                                            THEN "done" ELSE "paging"]
    /\ UNCHANGED <<pc, source, db, listener, result, slots>>

WalkReset ==
    /\ walk.stage \in {"done", "failed"}
    /\ walk' = IdleWalk
    /\ UNCHANGED <<pc, source, db, listener, result, slots>>

----------------------------------------------------------------------------
(* Specifications *)

\* startup, then one request at a time over the full input sets
Next == Startup \/ Serve(1, Requests)

Spec == Init /\ [][Next]_vars

\* startup, then NumWorkers requests interleaved
NextConc == Startup \/ \E i \in 1..NumWorkers : Serve(i, ConcRequests)

SpecConc == InitConc /\ [][NextConc]_vars

\* startup, then a paging client
NextPages == Startup \/ WalkStart \/ WalkFetch \/ WalkReset

SpecPages == Init /\ [][NextPages]_vars

----------------------------------------------------------------------------
(* Notions the properties are stated with *)

\* the request tasks that have run the list handler, resp. the lookup handler
ListDone == {i \in DOMAIN slots : /\ slots[i].stage = "responded"
                                  /\ Unwrap(slots[i].req).route = "/api/countries"}
GetDone == {i \in DOMAIN slots : /\ slots[i].stage = "responded"
                                 /\ Unwrap(slots[i].req).route = "/api/countries/{id}"}

CallOf(i) == Unwrap(slots[i].call)
RespOf(i) == Unwrap(slots[i].resp)

HasPrefix(s, q) == Len(q) <= Len(s) /\ SubSeq(s, 1, Len(q)) = q

\* record x matches predicate p, case-insensitively
Selects(p, x) ==
    IF p.variant = "CountryCode"
    THEN to_lowercase(x.country_code) = to_lowercase(p.arg)
    ELSE HasPrefix(to_lowercase(x.country), to_lowercase(p.arg))

\* the candidate records of a listing: the matching ones, in source order
Candidates(items, predicate) ==
    IF predicate = None THEN items
    ELSE SelectSeq(items, LAMBDA x : Selects(Unwrap(predicate), x))

\* at most n elements of s after the first off
Window(s, off, n) ==
    LET avail == IF Len(s) > off THEN Len(s) - off ELSE 0
        m == IF n < avail THEN n ELSE avail
    IN  [k \in 1..m |-> s[off + k]]

\* the mathematical product x * y is at least n (n below 2^31)
ProductAtLeast(x, y, n) == MulOverflows(x, y) \/ wrapping_mul(x, y) >= n

\* the last record of recs with the given id
LastWithId(recs, id) ==
    recs[CHOOSE k \in 1..Len(recs) :
            /\ recs[k].id = id
            /\ \A j \in (k + 1)..Len(recs) : recs[j].id # id]

----------------------------------------------------------------------------
(* Properties *)

\* C1: total_items of every listing equals the number of records that match
\* the predicate (the count after filtering); without a predicate, the length
\* of the whole sequence.
C1_TotalItemsIsFilteredCount ==
    \A i \in ListDone :
        RespOf(i).kind = "response" =>
            RespOf(i).body.pagination.total_items =
                Len(Candidates(Unwrap(db).all_items, CallOf(i).predicate))

\* C2: when page * pageSize does not overflow, a listing returns exactly the
\* matching records, in source order, after skipping page * pageSize of them
\* and taking at most pageSize; every returned record matches.
C2_FilterThenPaginate ==
    \A i \in ListDone :
        LET c == CallOf(i)
            cand == Candidates(Unwrap(db).all_items, c.predicate)
        IN  ~MulOverflows(c.page, c.max) =>
                /\ RespOf(i).kind = "response"
                /\ RespOf(i).body.data = Window(cand, c.page * c.max, c.max)
                /\ \A k \in 1..Len(RespOf(i).body.data) :
                      IsSome(c.predicate) =>
                          Selects(Unwrap(c.predicate), RespOf(i).body.data[k])

\* a filtered listing of a later page that leaves non-matching records out
C2_Witness ==
    \E i \in ListDone :
        /\ IsSome(CallOf(i).predicate)
        /\ CallOf(i).page = 1 /\ CallOf(i).max = 1
        /\ RespOf(i).kind = "response"
        /\ Len(RespOf(i).body.data) = 1
        /\ Len(Candidates(Unwrap(db).all_items, CallOf(i).predicate))
               < Len(Unwrap(db).all_items)
        /\ Unwrap(db).all_items[2] # RespOf(i).body.data[1]

\* C4: whenever the mathematical product page * pageSize is at least the
\* number of candidate records, the listing is a normal response with an
\* empty page, also when the 32-bit product overflows.
C4_OutOfRangePageIsEmpty ==
    \A i \in ListDone :
        LET c == CallOf(i)
            cand == Candidates(Unwrap(db).all_items, c.predicate)
        IN  ProductAtLeast(c.page, c.max, Len(cand)) =>
                /\ RespOf(i).kind = "response"
                /\ RespOf(i).status = 200
                /\ RespOf(i).body.data = <<>>

\* C7: a CountryCode predicate that matches exactly one record lists exactly
\* that record, whatever page and pageSize are, with total_items = 1.
C7_SingleCountryCodeMatch ==
    \A i \in ListDone :
        LET c == CallOf(i)
            cand == Candidates(Unwrap(db).all_items, c.predicate)
        IN  (/\ IsSome(c.predicate)
             /\ Unwrap(c.predicate).variant = "CountryCode"
             /\ Len(cand) = 1) =>
                /\ RespOf(i).kind = "response"
                /\ RespOf(i).body.data = cand
                /\ RespOf(i).body.pagination.total_items = 1

\* C3: reading an unfiltered listing with page size P >= 1, pages 0 to
\* total_items / P in order, yields the whole ordered sequence exactly once:
\* what has been read so far is always a prefix of it, and at the end it is all.
C3_PagesReproduceSequence ==
    LET items == Unwrap(db).all_items
    IN  /\ walk.stage # "failed"
        /\ walk.stage \in {"paging", "done"} =>
              /\ walk.acc = Window(items, 0, walk.page * walk.size)
              /\ walk.page > 0 => walk.total = Len(items)
        /\ walk.stage = "done" => walk.acc = items

\* a walk over three records in pages of two: a full page, then a short one
C3_Witness ==
    /\ walk.stage = "done"
    /\ walk.size = 2
    /\ walk.page = 2
    /\ Len(walk.acc) = 3
    /\ walk.acc = source.records

\* C5: a lookup of an id that some record of the loaded sequence has returns
\* a record with that id (200); a lookup of an id no record has returns the
\* not-found result (404 with the fixed message).
C5_LookupByIdentifier ==
    \A i \in GetDone :
        LET id == CallOf(i).id
            recs == source.records
        IN  IF \E k \in 1..Len(recs) : recs[k].id = id
            THEN /\ RespOf(i).status = 200
                 /\ RespOf(i).body.id = id
                 /\ \E k \in 1..Len(recs) : recs[k] = RespOf(i).body
            ELSE /\ RespOf(i).status = 404
                 /\ RespOf(i).body = NotFoundBody

\* a lookup of the first record's id in a sequence whose later records have
\* other ids
C5_Witness ==
    \E i \in GetDone :
        /\ Len(source.records) = 3
        /\ CallOf(i).id = source.records[1].id
        /\ \A k \in 2..3 : source.records[k].id # CallOf(i).id
        /\ RespOf(i).status = 200
        /\ RespOf(i).body = source.records[1]

\* C6: the list handler uses CountryCode if filter_country_code is present,
\* else Name if filter_name is present, else Tag if filter_tag is present,
\* else no predicate; several filters at once are not an error.
C6_PredicatePrecedence ==
    \A i \in ListDone :
        LET q == Unwrap(Unwrap(slots[i].req).query)
            used == CallOf(i).predicate
        IN  /\ q.filter_country_code # None =>
                  used = Some(CountryCode(Unwrap(q.filter_country_code)))
            /\ (q.filter_country_code = None /\ q.filter_name # None) =>
                  used = Some(Name(Unwrap(q.filter_name)))
            /\ (q.filter_country_code = None /\ q.filter_name = None
                    /\ q.filter_tag # None) =>
                  used = Some(Tag(Unwrap(q.filter_tag)))
            /\ (q.filter_country_code = None /\ q.filter_name = None
                    /\ q.filter_tag = None) =>
                  used = None
            /\ RespOf(i).kind = "response" =>
                  /\ RespOf(i).status = 200
                  /\ RespOf(i).body.data =
                         get_items_with_predicate(Unwrap(db), used, CallOf(i).page,
                                                  CallOf(i).max, FALSE).data

\* all three filters supplied: the country code decides and the name, which
\* alone would match, is ignored
C6_Witness ==
    \E i \in ListDone :
        LET q == Unwrap(Unwrap(slots[i].req).query)
        IN  /\ q.filter_country_code # None
            /\ q.filter_name # None
            /\ q.filter_tag # None
            /\ CallOf(i).predicate = Some(CountryCode(Unwrap(q.filter_country_code)))
            /\ RespOf(i).kind = "response"
            /\ RespOf(i).body.data = <<>>
            /\ Candidates(Unwrap(db).all_items, Some(Name(Unwrap(q.filter_name)))) # <<>>
            /\ CallOf(i).page = 0 /\ CallOf(i).max = 2

\* the state part of C8
StartupOrdered ==
    /\ (listener = "bound" \/ \E i \in DOMAIN slots : slots[i].stage # "idle") =>
          /\ pc = "serving"
          /\ listener = "bound"
          /\ source.kind = "ok"
          /\ db = Some(From(source.records))
    /\ \A i \in DOMAIN slots :
          slots[i].stage # "idle" =>
              slots[i].state = Some([db |-> From(source.records)])
    /\ source.kind # "ok" => (listener = "unbound" /\ db = None)
    /\ result # "pending" =>
          /\ pc = "exited"
          /\ listener = "unbound"
          /\ \A i \in DOMAIN slots : slots[i].stage = "idle"
    /\ (pc = "exited" /\ source.kind = "missing") => result = "Err(open)"
    /\ (pc = "exited" /\ source.kind = "unreadable") => result = "Err(read)"
    /\ (pc = "exited" /\ source.kind = "malformed") => result = "Err(parse)"
    /\ pc \in {"start", "opened", "read"} => db = None

\* C8: the listener is bound and requests are served only after load_dataset
\* has completed with the whole dataset; a failure to open, read or parse
\* makes run return that error with the listener never bound and no request
\* served, and once run has returned nothing is retried.
C8_StartupOrdering ==
    /\ []StartupOrdered
    /\ [][pc = "exited" => (pc' = "exited" /\ result' = result /\ db' = db
                               /\ listener' = listener)]_vars
    /\ [][listener' = "bound" /\ listener = "unbound" => pc = "loaded"]_vars

\* a request is being answered from a dataset of three records
C8_Witness ==
    /\ listener = "bound"
    /\ slots[1].stage = "responded"
    /\ Len(Unwrap(slots[1].state).db.all_items) = 3

\* C9: construction keeps every record, in source order, in the ordered
\* sequence; the index holds exactly the ids that occur, each with the last
\* record of that id; a lookup returns that last record.
C9_DuplicateIdLastWins ==
    /\ db # None =>
          LET d == Unwrap(db)
              recs == source.records
          IN  /\ d.all_items = recs
              /\ DOMAIN d.by_id = {recs[k].id : k \in 1..Len(recs)}
              /\ \A id \in DOMAIN d.by_id : d.by_id[id] = LastWithId(recs, id)
    /\ \A i \in GetDone :
          RespOf(i).status = 200 =>
              RespOf(i).body = LastWithId(source.records, CallOf(i).id)

\* two records share an id: a lookup returns the later one while a listing
\* returns the earlier one too
C9_Witness ==
    \E i \in GetDone : \E j \in ListDone :
        /\ Len(source.records) = 2
        /\ source.records[1].id = source.records[2].id
        /\ source.records[1] # source.records[2]
        /\ CallOf(i).id = source.records[1].id
        /\ RespOf(i).body = source.records[2]
        /\ RespOf(j).kind = "response"
        /\ RespOf(j).body.data = source.records

\* the response the handler gives to request r over dataset d
Alone(d, r, overflow_checks) ==
    IF r.route = "/api/countries"
    THEN api_handler_countries_list([db |-> d], Unwrap(r.query), overflow_checks)
    ELSE api_handler_countries_get([db |-> d], Unwrap(r.id))

\* the state part of C10
ResponsesAsAlone ==
    \A i \in DOMAIN slots :
        slots[i].stage = "responded" =>
            \E overflow_checks \in BOOLEAN :
                RespOf(i) = Alone(From(source.records), Unwrap(slots[i].req),
                                  overflow_checks)

\* C10: once built the Dataset never changes, however lookup and list
\* requests interleave, and every response is the one the request would get
\* if it ran alone on the dataset as loaded.
C10_ReadOnlyDataset ==
    /\ [][db # None => db' = db]_vars
    /\ [](db # None => db = Some(From(source.records)))
    /\ []ResponsesAsAlone

\* a filtered listing and a lookup answered while both are in flight
C10_Witness ==
    \E i \in ListDone : \E j \in GetDone :
        /\ IsSome(CallOf(i).predicate)
        /\ RespOf(i).kind = "response"
        /\ Len(RespOf(i).body.data) = 1
        /\ Len(Unwrap(db).all_items) = 2
        /\ RespOf(j).status = 200

====
